---- MODULE Spec2Model ----
(***************************************************************************)
(* Model of the UPI dashboard pipeline.                                    *)
(*                                                                         *)
(*   scraper.py      fetch the statistics page, extract five tables,       *)
(*                   write docs/data/latest.json and a timestamped copy    *)
(*   update_data.py  fold latest.json into docs/js/historical_data.js,     *)
(*                   patch docs/index.html, prune the timestamped copies   *)
(*                                                                         *)
(* Text is a sequence of one-character strings, so that replace(), strip() *)
(* and float() are computed character by character.  A float is the        *)
(* integer ten times its value (the texts of the model carry at most one   *)
(* fractional digit).  A dict of the scraper is a function on its keys; a   *)
(* JSON document of update_data is a tagged value whose objects keep the   *)
(* order of their members, as Python dicts do.                             *)
(***************************************************************************)
EXTENDS Integers, Sequences, FiniteSets, TLC

VARIABLES
    page,           \* scraper: the document the server holds, and the step that raises on it
    fetched,        \* scraper: what fetch_page gave the last run, "none" before any run
    parsed,         \* scraper: parsed_data of the last run that parsed (with timestamps)
    saveCalls,      \* scraper: number of save_data calls so far
    latestFile,     \* docs/data/latest.json: <<>> when absent, else <<the dict in it>>
    stampFiles,     \* docs/data/historical_<timestamp>.json: the set of timestamps
    storeFile,      \* docs/js/historical_data.js: its tokens, <<>> when absent
    htmlFile,       \* docs/index.html: its tokens, <<>> when absent
    historical,     \* update_data: historical_data of the last run, after the insertion
    current_month,  \* update_data: current_month of the last run
    saved,          \* update_data: <<recent_data>> last given to save_historical_data
    exitCode,       \* exit status of the last script run, -1 before any run
    clock,          \* datetime.now(), in runs
    before          \* the files and counters as the last run found them

vars == <<page, fetched, parsed, saveCalls, latestFile, stampFiles, storeFile, htmlFile,
          historical, current_month, saved, exitCode, clock, before>>

-----------------------------------------------------------------------------
(* Bounds of the model *)

MaxTables == 3     \* tables per document in the locator family
MaxRows == 12      \* data rows of a table in the row family
MaxRuns == 2       \* runs of a script per behaviour

(* Constants of the program *)

TopN == 10             \* rows[:10], merchant_data[:10]
AppsMinCells == 3      \* len(cells) >= 3
BanksMinCells == 3
MerchantMinCells == 4
StateMinCells == 5
TotalsMinCells == 6    \* len(cells) >= 6, although cells[6] is read

-----------------------------------------------------------------------------
(* Text and numeric coercion *)

Digits == <<"0", "1", "2", "3", "4", "5", "6", "7", "8", "9">>

IsDigit(c) == \E i \in 1..10 : Digits[i] = c

DigitVal(c) == (CHOOSE i \in 1..10 : Digits[i] = c) - 1

\* str.replace(ch, ''): every occurrence removed
RECURSIVE Remove(_, _)
Remove(s, ch) ==
    IF s = <<>> THEN <<>>
    ELSE IF Head(s) = ch THEN Remove(Tail(s), ch)
    ELSE <<Head(s)>> \o Remove(Tail(s), ch)

RECURSIVE LStrip(_)
LStrip(s) == IF s # <<>> /\ Head(s) = " " THEN LStrip(Tail(s)) ELSE s

RECURSIVE RStrip(_)
RStrip(s) ==
    IF s # <<>> /\ s[Len(s)] = " " THEN RStrip(SubSeq(s, 1, Len(s) - 1)) ELSE s

\* str.strip()
Strip(s) == RStrip(LStrip(s))

\* position of the first '.', or 0
DotPos(s) ==
    IF \E i \in 1..Len(s) : s[i] = "."
    THEN CHOOSE i \in 1..Len(s) : s[i] = "." /\ \A j \in 1..(i - 1) : s[j] # "."
    ELSE 0

AllDigits(s) == \A i \in 1..Len(s) : IsDigit(s[i])

RECURSIVE IntVal(_)
IntVal(s) ==
    IF s = <<>> THEN 0
    ELSE 10 * IntVal(SubSeq(s, 1, Len(s) - 1)) + DigitVal(s[Len(s)])

\* float(s) raises ValueError unless s is digits with at most one '.' and a
\* digit on one side of it (float() strips surrounding blanks itself)
FloatOk(t) ==
    LET s == Strip(t)
        d == DotPos(s)
    IN  IF d = 0 THEN s # <<>> /\ AllDigits(s)
        ELSE /\ AllDigits(SubSeq(s, 1, d - 1))
             /\ AllDigits(SubSeq(s, d + 1, Len(s)))
             /\ Len(s) > 1

\* ten times float(s), for s with FloatOk(s)
FloatVal(t) ==
    LET s == Strip(t)
        d == DotPos(s)
    IN  IF d = 0 THEN 10 * IntVal(s)
        ELSE 10 * IntVal(SubSeq(s, 1, d - 1))
             + (IF d < Len(s) THEN DigitVal(s[d + 1]) ELSE 0)

\* cell.replace(',', '') as handed to float()
Uncomma(s) == Remove(s, ",")

Numeric(s) == FloatOk(Uncomma(s))

Coerce(s) == FloatVal(Uncomma(s))

-----------------------------------------------------------------------------
(* The document: tables in document order.  A table is its <th> texts, the  *)
(* text it carries outside its cells, and its <tr> rows; a row is the       *)
(* stripped texts of its <td> cells (a header row has none).                *)

\* a in b for the texts of the model (substring test)
Contains(b, a) ==
    \/ b = a
    \/ b = "UPI Application Name" /\ a = "Application Name"
    \/ b = "Top UPI Remitter Members" /\ a = "UPI Remitter Members"
    \/ b = "Merchant Category-wise Transactions" /\ a = "Merchant Category-wise"
    \/ b = "State-wise UPI Volume" /\ a = "State-wise UPI"

\* table.get_text() contains the phrase
InText(table, phrase) ==
    \/ Contains(table.caption, phrase)
    \/ \E i \in 1..Len(table.th) : Contains(table.th[i], phrase)

\* 'Application Name' in headers: a list membership, not a substring test
IsAppsTable(table) == \E i \in 1..Len(table.th) : table.th[i] = "Application Name"

\* 'UPI Remitter Members' in str(headers)
IsRemitterTable(table) ==
    \E i \in 1..Len(table.th) : Contains(table.th[i], "UPI Remitter Members")

IsMerchantTable(table) == InText(table, "Merchant Category-wise")

IsStateTable(table) == InText(table, "State-wise UPI")

IsTotalsTable(table) == InText(table, "UPI P2P and P2M Transactions")

\* seq[1:]
DropFirst(seq) == IF seq = <<>> THEN <<>> ELSE Tail(seq)

\* seq[:n]
Take(seq, n) == SubSeq(seq, 1, IF Len(seq) < n THEN Len(seq) ELSE n)

-----------------------------------------------------------------------------
(* Row extractors: the body of each "for row in rows" loop, then the loop,  *)
(* then the "for table in tables ... break" scan.                           *)

\* cells[-2], cells[-1] are volume and value; cells[1] is the name
AppsRow(cells) ==
    IF Len(cells) >= AppsMinCells
    THEN IF Numeric(cells[Len(cells) - 1]) /\ Numeric(cells[Len(cells)])
         THEN <<[name |-> Strip(Remove(cells[2], "#")),
                 volume |-> Coerce(cells[Len(cells) - 1]),
                 value |-> Coerce(cells[Len(cells)])]>>
         ELSE <<>>
    ELSE <<>>

BanksRow(cells) ==
    IF Len(cells) >= BanksMinCells
    THEN IF Numeric(cells[3])
         THEN <<[name |-> Strip(cells[2]), volume |-> Coerce(cells[3])]>>
         ELSE <<>>
    ELSE <<>>

\* value is cells[4] when there is one, else 0
MerchantRow(cells) ==
    IF Len(cells) >= MerchantMinCells
    THEN IF Numeric(cells[4]) /\ (Len(cells) > 4 => Numeric(cells[5]))
         THEN <<[category |-> Strip(cells[3]),
                 volume |-> Coerce(cells[4]),
                 value |-> IF Len(cells) > 4 THEN Coerce(cells[5]) ELSE 0]>>
         ELSE <<>>
    ELSE <<>>

StateRow(cells) ==
    IF Len(cells) >= StateMinCells
    THEN IF Numeric(cells[3]) /\ Numeric(cells[5])
         THEN <<[state |-> Strip(cells[2]),
                 volume |-> Coerce(cells[3]),
                 value |-> Coerce(cells[5])]>>
         ELSE <<>>
    ELSE <<>>

\* mutant: a row of six cells gives a record, its last value defaulted
TotalsRowOfSix(cells) ==
    IF Len(cells) >= TotalsMinCells
    THEN IF /\ \A j \in 2..6 : Numeric(cells[j])
            /\ Len(cells) >= 7 => Numeric(cells[7])
         THEN <<[month |-> Strip(cells[1]),
                 totalVolume |-> Coerce(cells[2]),
                 totalValue |-> Coerce(cells[3]),
                 p2pVolume |-> Coerce(cells[4]),
                 p2pValue |-> Coerce(cells[5]),
                 p2mVolume |-> Coerce(cells[6]),
                 p2mValue |-> IF Len(cells) >= 7 THEN Coerce(cells[7]) ELSE 0]>>
         ELSE <<>>
    ELSE <<>>

\* the monthly totals: cells[1]..cells[6] are read after len(cells) >= 6, so a
\* row of six cells ends in IndexError, which the loop catches like ValueError
TotalsRow(cells) ==
    IF Len(cells) >= TotalsMinCells
    THEN IF /\ \A j \in 2..6 : Numeric(cells[j])
            /\ Len(cells) >= 7
            /\ Numeric(cells[7])
         THEN <<[month |-> Strip(cells[1]),
                 totalVolume |-> Coerce(cells[2]),
                 totalValue |-> Coerce(cells[3]),
                 p2pVolume |-> Coerce(cells[4]),
                 p2pValue |-> Coerce(cells[5]),
                 p2mVolume |-> Coerce(cells[6]),
                 p2mValue |-> Coerce(cells[7])]>>
         ELSE <<>>
    ELSE <<>>

\* for row in rows: append the row's record, or continue
RECURSIVE AppsRows(_)
AppsRows(rows) ==
    IF rows = <<>> THEN <<>> ELSE AppsRow(Head(rows)) \o AppsRows(Tail(rows))

RECURSIVE BanksRows(_)
BanksRows(rows) ==
    IF rows = <<>> THEN <<>> ELSE BanksRow(Head(rows)) \o BanksRows(Tail(rows))

RECURSIVE MerchantRows(_)
MerchantRows(rows) ==
    IF rows = <<>> THEN <<>> ELSE MerchantRow(Head(rows)) \o MerchantRows(Tail(rows))

\* mutant: a row that fails ends the loop instead of being skipped
RECURSIVE StateRowsStopAtBad(_)
StateRowsStopAtBad(rows) ==
    IF rows = <<>> \/ StateRow(Head(rows)) = <<>> THEN <<>>
    ELSE StateRow(Head(rows)) \o StateRowsStopAtBad(Tail(rows))

RECURSIVE StateRows(_)
StateRows(rows) ==
    IF rows = <<>> THEN <<>> ELSE StateRow(Head(rows)) \o StateRows(Tail(rows))

\* for row in rows: return the first record
RECURSIVE FirstRecord(_)
FirstRecord(rows) ==
    IF rows = <<>> THEN <<>>
    ELSE IF TotalsRow(Head(rows)) # <<>> THEN TotalsRow(Head(rows))
    ELSE FirstRecord(Tail(rows))

\* mutant: the header row is not skipped
RECURSIVE AppsScanKeepsHeader(_)
AppsScanKeepsHeader(tables) ==
    IF tables = <<>> THEN <<>>
    ELSE IF IsAppsTable(Head(tables))
         THEN AppsRows(Take(Head(tables).rows, TopN))
         ELSE AppsScanKeepsHeader(Tail(tables))

RECURSIVE AppsScan(_)
AppsScan(tables) ==
    IF tables = <<>> THEN <<>>
    ELSE IF IsAppsTable(Head(tables))
         THEN AppsRows(Take(DropFirst(Head(tables).rows), TopN))
         ELSE AppsScan(Tail(tables))

RECURSIVE BanksScan(_)
BanksScan(tables) ==
    IF tables = <<>> THEN <<>>
    ELSE IF IsRemitterTable(Head(tables))
         THEN BanksRows(Take(DropFirst(Head(tables).rows), TopN))
         ELSE BanksScan(Tail(tables))

\* every row is scanned, the header row too; the cap is applied by the caller
RECURSIVE MerchantScan(_)
MerchantScan(tables) ==
    IF tables = <<>> THEN <<>>
    ELSE IF IsMerchantTable(Head(tables))
         THEN MerchantRows(Head(tables).rows)
         ELSE MerchantScan(Tail(tables))

RECURSIVE StateScan(_)
StateScan(tables) ==
    IF tables = <<>> THEN <<>>
    ELSE IF IsStateTable(Head(tables))
         THEN StateRows(Take(DropFirst(Head(tables).rows), TopN))
         ELSE StateScan(Tail(tables))

\* mutant: a matching table without a valid row does not end the scan
RECURSIVE TotalsScanFallsThrough(_)
TotalsScanFallsThrough(tables) ==
    IF tables = <<>> THEN <<>>
    ELSE IF IsTotalsTable(Head(tables)) /\ FirstRecord(Head(tables).rows) # <<>>
         THEN FirstRecord(Head(tables).rows)
         ELSE TotalsScanFallsThrough(Tail(tables))

RECURSIVE TotalsScan(_)
TotalsScan(tables) ==
    IF tables = <<>> THEN <<>>
    ELSE IF IsTotalsTable(Head(tables))
         THEN FirstRecord(Head(tables).rows)
         ELSE TotalsScan(Tail(tables))

\* the empty dict
EmptyDict == <<>>

\* d.update(e)
Update(d, e) == e @@ d

\* Each extractor returns a dict; doc.poison names the step that raises on
\* this document, whose except branch then returns the default.
extract_apps_data(doc) ==
    "topApps" :> (IF doc.poison = "apps" THEN <<>> ELSE AppsScan(doc.tables))

\* mutant: the except branch returns {} instead of the empty sequence under its key
extract_remitter_data_drops_key(doc) ==
    IF doc.poison = "banks" THEN EmptyDict ELSE "topBanks" :> BanksScan(doc.tables)

extract_remitter_data(doc) ==
    "topBanks" :> (IF doc.poison = "banks" THEN <<>> ELSE BanksScan(doc.tables))

extract_beneficiary_data(doc) == EmptyDict

extract_merchant_data(doc) ==
    "merchantCategories" :>
        (IF doc.poison = "merchant" THEN <<>> ELSE Take(MerchantScan(doc.tables), TopN))

extract_state_data(doc) ==
    "stateData" :> (IF doc.poison = "state" THEN <<>> ELSE StateScan(doc.tables))

extract_p2p_p2m_data(doc) ==
    IF doc.poison = "totals" \/ TotalsScan(doc.tables) = <<>> THEN EmptyDict
    ELSE TotalsScan(doc.tables)[1]

\* parse_tables: {} when the parser itself raises, else the merged outputs
parse_tables(doc) ==
    IF doc.poison = "parse" THEN EmptyDict
    ELSE Update(Update(Update(Update(Update(Update(EmptyDict,
             extract_apps_data(doc)),
             extract_remitter_data(doc)),
             extract_beneficiary_data(doc)),
             extract_merchant_data(doc)),
             extract_state_data(doc)),
             extract_p2p_p2m_data(doc))

-----------------------------------------------------------------------------
(* The documents of the model *)

TwoDigit(i) == <<Digits[(i \div 10) + 1], Digits[(i % 10) + 1]>>

\* "c,ii.5": the number of column c in row i
NumText(c, i) == <<Digits[c + 1], ",">> \o TwoDigit(i) \o <<".", "5">>

NameText(i) == <<"#", " ", "N">> \o TwoDigit(i)

MonthText == <<"J", "a", "n", "-", "2", "4">>

Word == <<"a", "b", "c">>

Kinds == {"apps", "banks", "merchant", "state", "totals"}

Shapes == {"text", "short", "six", "four"}

Poisons == Kinds \cup {"parse"}

GoodRow(kind, i) ==
    IF kind = "totals"
    THEN <<MonthText>> \o [c \in 1..6 |-> NumText(c, i)]
    ELSE <<NumText(0, i), NameText(i)>> \o [c \in 1..5 |-> NumText(c + 1, i)]

\* rows that some extractor rejects: words for numbers, or too few cells
OddRow(kind, shape, i) ==
    CASE shape = "text" -> <<GoodRow(kind, i)[1], GoodRow(kind, i)[2]>> \o [c \in 1..5 |-> Word]
      [] shape = "short" -> SubSeq(GoodRow(kind, i), 1, 2)
      [] shape = "six" -> SubSeq(GoodRow(kind, i), 1, 6)
      [] shape = "four" -> SubSeq(GoodRow(kind, i), 1, 4)

HeaderRow == <<>>

Marked(kind, rows) ==
    CASE kind = "apps" ->
           [th |-> <<"Sr", "Application Name">>, caption |-> "", rows |-> rows]
      [] kind = "banks" ->
           [th |-> <<"Sr", "Top UPI Remitter Members">>, caption |-> "", rows |-> rows]
      [] kind = "merchant" ->
           [th |-> <<"Sr", "Category">>, caption |-> "Merchant Category-wise Transactions",
            rows |-> rows]
      [] kind = "state" ->
           [th |-> <<"Sr", "State">>, caption |-> "State-wise UPI Volume", rows |-> rows]
      [] kind = "totals" ->
           [th |-> <<"Month">>, caption |-> "UPI P2P and P2M Transactions", rows |-> rows]
      [] OTHER ->
           [th |-> <<"Sr", "UPI Application Name">>, caption |-> "Other", rows |-> rows]

\* the kind after k, to put tables of two kinds into one document
NextKind(k) ==
    CASE k = "apps" -> "banks" [] k = "banks" -> "merchant" [] k = "merchant" -> "state"
      [] k = "state" -> "totals" [] OTHER -> "apps"

\* locator family: up to MaxTables tables of one data row each, whose row
\* carries the position of its table; pick <<kind, good>> per table
LocatorTables(picks) ==
    [p \in 1..Len(picks) |->
        Marked(picks[p][1],
               <<HeaderRow, IF picks[p][2] THEN GoodRow(picks[p][1], p)
                            ELSE OddRow(picks[p][1], "text", p)>>)]

LocatorDocs ==
    UNION { { [tables |-> LocatorTables(picks), poison |-> "none"] :
                picks \in UNION { [1..n -> {<<"none", TRUE>>, <<k, TRUE>>, <<k, FALSE>>,
                                            <<NextKind(k), TRUE>>}] : n \in 0..MaxTables } }
            : k \in Kinds }

\* row family: one table of n data rows under a header row; row i is odd, and
\* with it the row after it or the last row
RowTable(kind, n, odd, shape) ==
    Marked(kind, <<HeaderRow>> \o
                 [p \in 1..n |-> IF p \in odd THEN OddRow(kind, shape, p)
                                 ELSE GoodRow(kind, p)])

RowDocs ==
    { [tables |-> <<RowTable(kind, n, {}, "text")>>, poison |-> "none"] :
        kind \in Kinds, n \in {TopN + 1, MaxRows} }
    \cup
    UNION { { [tables |-> <<RowTable(kind, n, {i, CASE j = 0 -> i [] j = 1 -> (i % n) + 1
                                                     [] OTHER -> n}, shape)>>,
               poison |-> "none"] :
                kind \in Kinds, shape \in Shapes, i \in 1..n, j \in 0..2 }
            : n \in {TopN + 1, MaxRows} }

\* poison family: the empty document and the document of five good tables,
\* with one step raising
FullTables ==
    LocatorTables(<<<<"apps", TRUE>>, <<"banks", TRUE>>, <<"merchant", TRUE>>,
                    <<"state", TRUE>>, <<"totals", TRUE>>>>)

PoisonDocs ==
    { [tables |-> t, poison |-> p] : t \in {<<>>, FullTables}, p \in Poisons }

Docs == LocatorDocs \cup RowDocs \cup PoisonDocs

-----------------------------------------------------------------------------
(* scraper.py *)

Absent == <<>>

Snapshot == [latest |-> latestFile, stamps |-> stampFiles, saves |-> saveCalls,
             store |-> storeFile, html |-> htmlFile, saved |-> saved]

\* main(): scrape_all_data, exit(1) when it returns False.  fetch is what
\* fetch_page returns: None after an error, the body otherwise.
ScraperMain ==
    /\ clock < MaxRuns
    /\ \E fetch \in {"None", "body"} :
        /\ fetched' = fetch
        /\ IF fetch # "body"
           THEN /\ exitCode' = 1
                /\ UNCHANGED <<parsed, latestFile, stampFiles, saveCalls>>
           ELSE LET data == Update(Update(parse_tables(page),
                                          "lastUpdated" :> clock),
                                   "scrapedAt" :> clock)
                IN  /\ parsed' = data
                    /\ latestFile' = <<data>>
                    /\ stampFiles' = stampFiles \cup {clock}
                    /\ saveCalls' = saveCalls + 1
                    /\ exitCode' = 0
    /\ before' = Snapshot
    /\ clock' = clock + 1
    /\ UNCHANGED <<page, storeFile, htmlFile, historical, current_month, saved>>

InitScraper ==
    /\ page \in Docs
    /\ parsed = EmptyDict
    /\ latestFile = Absent
    /\ stampFiles = {}
    /\ saveCalls = 0
    /\ exitCode = -1
    /\ clock = 0
    /\ storeFile = Absent
    /\ htmlFile = Absent
    /\ historical = <<>>
    /\ current_month = <<>>
    /\ saved = <<>>
    /\ fetched = "none"
    /\ before = Snapshot

NextScraper == ScraperMain

SpecScraper == InitScraper /\ [][NextScraper]_vars

-----------------------------------------------------------------------------
(* Vocabulary of the scraper's properties *)

SeqKinds == {"apps", "banks", "merchant", "state"}

KeyOf(kind) ==
    CASE kind = "apps" -> "topApps" [] kind = "banks" -> "topBanks"
      [] kind = "merchant" -> "merchantCategories" [] kind = "state" -> "stateData"

TotalsKeys == {"month", "totalVolume", "totalValue", "p2pVolume", "p2pValue",
               "p2mVolume", "p2mValue"}

Matches(kind, table) ==
    CASE kind = "apps" -> IsAppsTable(table) [] kind = "banks" -> IsRemitterTable(table)
      [] kind = "merchant" -> IsMerchantTable(table) [] kind = "state" -> IsStateTable(table)
      [] kind = "totals" -> IsTotalsTable(table)

HasTable(kind, doc) == \E p \in 1..Len(doc.tables) : Matches(kind, doc.tables[p])

\* position of the first table of the kind, in document order
FirstTable(kind, doc) ==
    CHOOSE p \in 1..Len(doc.tables) :
        /\ Matches(kind, doc.tables[p])
        /\ \A q \in 1..(p - 1) : ~Matches(kind, doc.tables[q])

\* the last run fetched and parsed the page, and no step raised
CleanRun == fetched = "body" /\ page.poison = "none"

\* a row an extractor must accept: enough cells, its numeric cells numbers
WellFormed(kind, cells) ==
    CASE kind = "apps" ->
           Len(cells) >= 3 /\ Numeric(cells[Len(cells) - 1]) /\ Numeric(cells[Len(cells)])
      [] kind = "banks" -> Len(cells) >= 3 /\ Numeric(cells[3])
      [] kind = "merchant" ->
           Len(cells) >= 4 /\ Numeric(cells[4]) /\ (Len(cells) >= 5 => Numeric(cells[5]))
      [] kind = "state" -> Len(cells) >= 5 /\ Numeric(cells[3]) /\ Numeric(cells[5])
      [] kind = "totals" -> Len(cells) >= 7 /\ \A j \in 2..7 : Numeric(cells[j])

RecordOf(kind, cells) ==
    CASE kind = "apps" -> AppsRow(cells)[1] [] kind = "banks" -> BanksRow(cells)[1]
      [] kind = "merchant" -> MerchantRow(cells)[1] [] kind = "state" -> StateRow(cells)[1]
      [] kind = "totals" -> TotalsRow(cells)[1]

\* the rows an extractor scans: all of them for the merchant categories and
\* the totals, the TopN after the first for the others
Scanned(kind, table) ==
    IF kind \in {"merchant", "totals"} THEN 1..Len(table.rows)
    ELSE { p \in 2..Len(table.rows) : p <= TopN + 1 }

GoodPositions(kind, table) ==
    { p \in Scanned(kind, table) : WellFormed(kind, table.rows[p]) }

\* the elements of a set of numbers, ascending
Ascending(S) ==
    [k \in 1..Cardinality(S) |-> CHOOSE p \in S : Cardinality({q \in S : q <= p}) = k]

\* the records of every well-formed scanned row, in row order
AllRecords(kind, table) ==
    LET good == Ascending(GoodPositions(kind, table))
    IN  [k \in 1..Len(good) |-> RecordOf(kind, table.rows[good[k]])]

\* what the last run extracted for a kind, as a sequence of records
Extracted(kind) ==
    IF kind = "totals"
    THEN IF TotalsKeys \subseteq DOMAIN parsed
         THEN <<[k \in TotalsKeys |-> parsed[k]]>>
         ELSE <<>>
    ELSE parsed[KeyOf(kind)]

-----------------------------------------------------------------------------
(* Properties of the scraper *)

\* C1: after a run that fetched and parsed the page, parsed_data holds the four
\* sequence keys and both timestamps whatever the document, an extractor that
\* raised or found no table leaves an empty sequence under its own key, and the
\* snapshot written is that dict.
SnapshotComplete ==
    (fetched = "body" /\ page.poison # "parse") =>
        /\ {KeyOf(k) : k \in SeqKinds} \cup {"lastUpdated", "scrapedAt"} \subseteq DOMAIN parsed
        /\ \A k \in SeqKinds :
              (page.poison = k \/ ~HasTable(k, page)) => parsed[KeyOf(k)] = <<>>
        /\ latestFile = <<parsed>>

\* C1 witness: a raising extractor on the document of five good tables
SnapshotCompleteSeen ==
    /\ fetched = "body"
    /\ page.poison = "banks"
    /\ page.tables # <<>>
    /\ parsed["topBanks"] = <<>>
    /\ Len(parsed["topApps"]) = 1

\* C2 as stated: a run whose fetch or parse failed exits nonzero and writes
\* neither latest.json nor a timestamped file.
NoSnapshotOnFailure ==
    (clock > 0 /\ (fetched = "None" \/ page.poison = "parse")) =>
        /\ exitCode = 1
        /\ saveCalls = before.saves
        /\ latestFile = before.latest
        /\ stampFiles = before.stamps

\* the apps fixture: one table, a header row and 11 data rows, 2 of them malformed
IsAppsFixture(doc) ==
    /\ Len(doc.tables) = 1
    /\ IsAppsTable(doc.tables[1])
    /\ Len(doc.tables[1].rows) = 12
    /\ doc.tables[1].rows[1] = HeaderRow
    /\ Cardinality({p \in 2..12 : ~WellFormed("apps", doc.tables[1].rows[p])}) = 2

\* the record of the apps data row i of the row family
AppsRecord(i) ==
    [name |-> <<"N">> \o TwoDigit(i), volume |-> 5000 + 10 * i + 5, value |-> 6000 + 10 * i + 5]

\* C5 as stated: the fixture yields exactly 10 records.
FixtureYieldsTen ==
    (CleanRun /\ IsAppsFixture(page)) => Len(parsed["topApps"]) = 10

\* C5 amended: the fixture yields the well-formed rows among its first 10 data
\* rows, in row order, which are 8 or 9 records and never 10.
FixtureYieldsFirstTenGood ==
    (CleanRun /\ IsAppsFixture(page)) =>
        LET rows == page.tables[1].rows
            good == Ascending({p \in 2..11 : WellFormed("apps", rows[p])})
        IN  /\ Len(parsed["topApps"]) \in {8, 9}
            /\ parsed["topApps"] = [k \in 1..Len(good) |-> AppsRecord(good[k] - 1)]

\* C5 witness: the fixture with its second and third data rows malformed
FixtureSeen ==
    /\ CleanRun
    /\ IsAppsFixture(page)
    /\ ~WellFormed("apps", page.tables[1].rows[3])
    /\ ~WellFormed("apps", page.tables[1].rows[4])
    /\ Len(parsed["topApps"]) = 8

\* C6 as stated: every sequence extractor yields the record of every
\* well-formed row it scans in its first matching table, in row order, and
\* nothing for the others.
EveryGoodRowKept ==
    CleanRun =>
        \A k \in SeqKinds :
            HasTable(k, page) =>
                parsed[KeyOf(k)] = AllRecords(k, page.tables[FirstTable(k, page)])

\* C6 amended: as stated, except that the merchant categories, which scan
\* every row of the table, keep the first 10 of those records only.
GoodRowsKeptUpToCap ==
    CleanRun =>
        \A k \in SeqKinds :
            HasTable(k, page) =>
                LET all == AllRecords(k, page.tables[FirstTable(k, page)])
                IN  parsed[KeyOf(k)] = IF k = "merchant" THEN Take(all, TopN) ELSE all

\* C6 witness: a words-for-numbers row between well-formed rows of a state table
BadRowDroppedSeen ==
    /\ CleanRun
    /\ HasTable("state", page)
    /\ LET rows == page.tables[FirstTable("state", page)].rows
       IN  /\ Len(rows) >= 4
           /\ WellFormed("state", rows[2])
           /\ Len(rows[3]) = 7 /\ ~WellFormed("state", rows[3])
           /\ WellFormed("state", rows[4])
           /\ Len(parsed["stateData"]) = 9

\* C7: what an extractor yields comes from the first table that matches its
\* predicate: each record is the record of a row of that table, and when that
\* table has no well-formed row the result is empty although a later table
\* matches.
FirstMatchOnly ==
    CleanRun =>
        \A k \in Kinds :
            HasTable(k, page) =>
                LET t == page.tables[FirstTable(k, page)]
                    got == Extracted(k)
                    from == { RecordOf(k, t.rows[p]) :
                                p \in { q \in 1..Len(t.rows) : WellFormed(k, t.rows[q]) } }
                IN  /\ \A n \in 1..Len(got) : got[n] \in from
                    /\ GoodPositions(k, t) = {} => got = <<>>

\* C7 witness: tables [no match, match without a valid row, match with one]
LaterMatchIgnoredSeen ==
    /\ CleanRun
    /\ Len(page.tables) = 3
    /\ ~Matches("totals", page.tables[1])
    /\ Matches("totals", page.tables[2])
    /\ GoodPositions("totals", page.tables[2]) = {}
    /\ Matches("totals", page.tables[3])
    /\ GoodPositions("totals", page.tables[3]) # {}
    /\ Extracted("totals") = <<>>

\* C9: the monthly totals are the record of the first row, in row order, of
\* the first matching table with at least 7 cells and cells 1 to 6 numeric; a
\* row of 6 cells gives nothing and does not stop the scan; without such a row
\* no totals field is present.
TotalsFromFirstValidRow ==
    CleanRun =>
        IF HasTable("totals", page)
           /\ GoodPositions("totals", page.tables[FirstTable("totals", page)]) # {}
        THEN LET t == page.tables[FirstTable("totals", page)]
                 p == Ascending(GoodPositions("totals", t))[1]
                 cells == t.rows[p]
             IN  /\ TotalsKeys \subseteq DOMAIN parsed
                 /\ parsed["month"] = cells[1]
                 /\ parsed["totalVolume"] = Coerce(cells[2])
                 /\ parsed["totalValue"] = Coerce(cells[3])
                 /\ parsed["p2pVolume"] = Coerce(cells[4])
                 /\ parsed["p2pValue"] = Coerce(cells[5])
                 /\ parsed["p2mVolume"] = Coerce(cells[6])
                 /\ parsed["p2mValue"] = Coerce(cells[7])
        ELSE TotalsKeys \cap DOMAIN parsed = {}

\* C9 witness: a first data row of 6 numeric cells, the record from the second
SixCellRowSkippedSeen ==
    /\ CleanRun
    /\ HasTable("totals", page)
    /\ LET rows == page.tables[FirstTable("totals", page)].rows
       IN  /\ Len(rows) >= 3
           /\ Len(rows[2]) = 6
           /\ \A j \in 2..6 : Numeric(rows[2][j])
           /\ "totalVolume" \in DOMAIN parsed
           /\ parsed["totalVolume"] = 1025

-----------------------------------------------------------------------------
(* update_data.py: JSON values, and files as token sequences *)

KeepMonths == 24     \* sorted_months[:24]
KeepFiles == 10      \* historical_files[10:]

Str(s) == [t |-> "str", s |-> s, n |-> 0, m |-> <<>>]
Num(n) == [t |-> "num", s |-> <<>>, n |-> n, m |-> <<>>]
Obj(m) == [t |-> "obj", s |-> <<>>, n |-> 0, m |-> m]

Tok(t) == [t |-> t, s |-> <<>>, n |-> 0]
StrTok(s) == [t |-> "str", s |-> s, n |-> 0]
NumTok(n) == [t |-> "num", s |-> <<>>, n |-> n]

\* members of a dict: d.keys(), key in d, d.get(key, default), d[key] = value
Keys(m) == [i \in 1..Len(m) |-> m[i].k]

HasKey(m, key) == \E i \in 1..Len(m) : m[i].k = key

Get(m, key, default) ==
    IF HasKey(m, key) THEN m[CHOOSE i \in 1..Len(m) : m[i].k = key].v ELSE default

Put(m, key, value) ==
    IF HasKey(m, key)
    THEN [i \in 1..Len(m) |-> IF m[i].k = key THEN [k |-> key, v |-> value] ELSE m[i]]
    ELSE Append(m, [k |-> key, v |-> value])

\* the middle of lo..hi: what spans several positions is computed half by half
Mid(lo, hi) == (lo + hi) \div 2

\* json.dumps(value, indent=2), as tokens: the members lo..hi of a dict, a
\* comma between two of them
RECURSIVE Dumps(_)
RECURSIVE DumpMembers(_, _, _)
Dumps(value) ==
    CASE value.t = "str" -> <<StrTok(value.s)>>
      [] value.t = "num" -> <<NumTok(value.n)>>
      [] OTHER -> <<Tok("{")>> \o DumpMembers(value.m, 1, Len(value.m)) \o <<Tok("}")>>

DumpMembers(m, lo, hi) ==
    CASE lo > hi -> <<>>
      [] lo = hi -> <<StrTok(m[lo].k), Tok(":")>> \o Dumps(m[lo].v)
      [] OTHER -> DumpMembers(m, lo, Mid(lo, hi)) \o <<Tok(",")>>
                  \o DumpMembers(m, Mid(lo, hi) + 1, hi)

ParseError == [ok |-> FALSE, v |-> Num(0), next |-> 0]

\* how many braces are open after each of toks[lo..hi], base of them before
RECURSIVE Nesting(_, _, _, _)
Nesting(toks, lo, hi, base) ==
    CASE lo > hi -> <<>>
      [] lo = hi /\ toks[lo].t = "{" -> <<base + 1>>
      [] lo = hi /\ toks[lo].t = "}" -> <<base - 1>>
      [] lo = hi -> <<base>>
      [] OTHER -> LET left == Nesting(toks, lo, Mid(lo, hi), base)
                  IN  left \o Nesting(toks, Mid(lo, hi) + 1, hi, left[Len(left)])

\* the positions of lo..hi that mask selects, ascending
RECURSIVE Positions(_, _, _)
Positions(mask, lo, hi) ==
    CASE lo > hi -> <<>>
      [] lo = hi -> IF mask[lo] THEN <<lo>> ELSE <<>>
      [] OTHER -> Positions(mask, lo, Mid(lo, hi)) \o Positions(mask, Mid(lo, hi) + 1, hi)

\* a dict built from pairs in order: a key keeps the place of its first
\* occurrence and the value of its last
FromPairs(pairs) ==
    LET n == Len(pairs)
        first == Positions([q \in 1..n |-> \A p \in 1..(q - 1) : pairs[p].k # pairs[q].k], 1, n)
        last(key) == CHOOSE q \in 1..n :
                        pairs[q].k = key /\ \A r \in (q + 1)..n : pairs[r].k # key
    IN  [p \in 1..Len(first) |->
            [k |-> pairs[first[p]].k, v |-> pairs[last(pairs[first[p]].k)].v]]

\* the JSON decoder: the value that starts at token i, and where it ends.
\* open[j] is the number of braces open after token j; an object runs to the
\* first token that closes it, and tops are the tokens directly inside it:
\* key, colon, value (a nested object counts by its opening brace), comma.
RECURSIVE ParseValue(_, _, _)
RECURSIVE ParseMembers(_, _, _, _, _)
ParseValue(toks, open, i) ==
    CASE i > Len(toks) -> ParseError
      [] toks[i].t = "str" -> [ok |-> TRUE, v |-> Str(toks[i].s), next |-> i + 1]
      [] toks[i].t = "num" -> [ok |-> TRUE, v |-> Num(toks[i].n), next |-> i + 1]
      [] toks[i].t = "{" /\ \E j \in (i + 1)..Len(toks) : open[j] < open[i] ->
            LET close == CHOOSE j \in (i + 1)..Len(toks) :
                            /\ open[j] < open[i]
                            /\ \A k \in (i + 1)..(j - 1) : open[k] >= open[i]
                tops == Positions([k \in (i + 1)..(close - 1) |-> open[k - 1] = open[i]],
                                  i + 1, close - 1)
                pairs == ParseMembers(toks, open, tops, 1, (Len(tops) + 1) \div 4)
            IN  CASE tops = <<>> -> [ok |-> TRUE, v |-> Obj(<<>>), next |-> close + 1]
                  [] Len(tops) % 4 = 3 /\ 4 * Len(pairs) = Len(tops) + 1 ->
                        [ok |-> TRUE, v |-> Obj(FromPairs(pairs)), next |-> close + 1]
                  [] OTHER -> ParseError
      [] OTHER -> ParseError

\* the members lo..hi of an object, member q being tops[4q-3 .. 4q-1] and
\* tops[4q] the comma after it; a member that does not parse is left out
ParseMembers(toks, open, tops, lo, hi) ==
    CASE lo = hi /\ toks[tops[4 * lo - 3]].t = "str"
                 /\ toks[tops[4 * lo - 2]].t = ":"
                 /\ ParseValue(toks, open, tops[4 * lo - 1]).ok
                 /\ (4 * lo < Len(tops) => toks[tops[4 * lo]].t = ",") ->
            <<[k |-> toks[tops[4 * lo - 3]].s, v |-> ParseValue(toks, open, tops[4 * lo - 1]).v]>>
      [] lo = hi -> <<>>
      [] OTHER -> ParseMembers(toks, open, tops, lo, Mid(lo, hi))
                  \o ParseMembers(toks, open, tops, Mid(lo, hi) + 1, hi)

\* json.loads(text): one value and nothing after it ("Extra data" otherwise)
Loads(toks) ==
    LET open == Nesting(toks, 1, Len(toks), 0)
        r == ParseValue(toks, open, 1)
    IN  IF open # <<>> /\ r.ok /\ r.next = Len(toks) + 1 THEN r ELSE ParseError

\* content.find('{') and content.rfind('}'), 0 when there is none
Find(toks, t) ==
    IF \E i \in 1..Len(toks) : toks[i].t = t
    THEN CHOOSE i \in 1..Len(toks) : toks[i].t = t /\ \A j \in 1..(i - 1) : toks[j].t # t
    ELSE 0

RFind(toks, t) ==
    IF \E i \in 1..Len(toks) : toks[i].t = t
    THEN CHOOSE i \in 1..Len(toks) : toks[i].t = t /\ \A j \in (i + 1)..Len(toks) : toks[j].t # t
    ELSE 0

\* load_historical_data: {} when the file is absent or json.loads raises
load_historical_data(file) ==
    IF file = Absent THEN <<>>
    ELSE LET start == Find(file, "{")
             end == RFind(file, "}")
             r == Loads(SubSeq(file, start, end))
         IN  IF start > 0 /\ r.ok THEN r.v.m ELSE <<>>

\* the text save_historical_data writes: two comment lines, the declaration,
\* and the two export blocks, each with braces of its own
JsText(data, now) ==
    <<Tok("// Auto-generated historical UPI data"),
      [t |-> "// Last updated:", s |-> <<>>, n |-> now],
      Tok("const historicalUPIData =")>>
    \o Dumps(Obj(data))
    \o <<Tok(";"), Tok("// Export for use in main application"),
         Tok("if (typeof window !== 'undefined')"), Tok("{"),
         Tok("window.historicalUPIData = historicalUPIData;"), Tok("}"),
         Tok("if (typeof module !== 'undefined' && module.exports)"), Tok("{"),
         Tok("module.exports = historicalUPIData;"), Tok("}")>>

-----------------------------------------------------------------------------
(* Period labels and their order *)

MonthNames == <<<<"j", "a", "n">>, <<"f", "e", "b">>, <<"m", "a", "r">>, <<"a", "p", "r">>,
                <<"m", "a", "y">>, <<"j", "u", "n">>, <<"j", "u", "l">>, <<"a", "u", "g">>,
                <<"s", "e", "p">>, <<"o", "c", "t">>, <<"n", "o", "v">>, <<"d", "e", "c">>>>

Lower(c) ==
    CASE c = "J" -> "j" [] c = "F" -> "f" [] c = "M" -> "m" [] c = "A" -> "a"
      [] c = "S" -> "s" [] c = "O" -> "o" [] c = "N" -> "n" [] c = "D" -> "d"
      [] OTHER -> c

Upper(c) ==
    CASE c = "j" -> "J" [] c = "f" -> "F" [] c = "m" -> "M" [] c = "a" -> "A"
      [] c = "s" -> "S" [] c = "o" -> "O" [] c = "n" -> "N" [] c = "d" -> "D"
      [] OTHER -> c

\* datetime.strptime(x, "%b-%y"): the month as year * 12 + month - 1, or -1
\* for ValueError.  %b matches a month abbreviation in any case, %y two digits
\* (69..99 are 1969..1999, 00..68 are 2000..2068).
Strptime(x) ==
    IF /\ Len(x) = 6
       /\ \E m \in 1..12 : MonthNames[m] = <<Lower(x[1]), Lower(x[2]), Lower(x[3])>>
       /\ x[4] = "-"
       /\ IsDigit(x[5]) /\ IsDigit(x[6])
    THEN LET m == CHOOSE m \in 1..12 : MonthNames[m] = <<Lower(x[1]), Lower(x[2]), Lower(x[3])>>
             yy == IntVal(<<x[5], x[6]>>)
         IN  (IF yy < 69 THEN 2000 + yy ELSE 1900 + yy) * 12 + m - 1
    ELSE -1

\* strftime("%b-%y") of the month numbered a, where month 0 is January 1999
Strftime(a) ==
    LET name == MonthNames[(a % 12) + 1]
    IN  <<Upper(name[1]), name[2], name[3], "-">> \o TwoDigit((99 + (a \div 12)) % 100)

\* key=strptime applied to keys[lo..hi]
RECURSIVE SortKeys(_, _, _)
SortKeys(keys, lo, hi) ==
    CASE lo > hi -> <<>>
      [] lo = hi -> <<Strptime(keys[lo])>>
      [] OTHER -> SortKeys(keys, lo, Mid(lo, hi)) \o SortKeys(keys, Mid(lo, hi) + 1, hi)

\* for each of lo..hi, how many keys the descending stable order puts ahead
\* of it: those of a later month, and the earlier ones of its own month
RECURSIVE Ahead(_, _, _)
Ahead(at, lo, hi) ==
    CASE lo > hi -> <<>>
      [] lo = hi -> <<Cardinality({ j \in 1..Len(at) :
                                       at[j] > at[lo] \/ (at[j] = at[lo] /\ j < lo) })>>
      [] OTHER -> Ahead(at, lo, Mid(lo, hi)) \o Ahead(at, Mid(lo, hi) + 1, hi)

\* sorted(keys, key=strptime, reverse=True)
SortedMonths(keys) ==
    LET at == SortKeys(keys, 1, Len(keys))
        ahead == Ahead(at, 1, Len(at))
    IN  [p \in 1..Len(at) |-> keys[CHOOSE i \in 1..Len(at) : ahead[i] = p - 1]]

\* mutant: a key strptime rejects is sorted like any other
SortNeverRaises(keys) == FALSE

\* the key function raises on one of the keys
SortRaises(keys) == \E i \in 1..Len(keys) : Strptime(keys[i]) = -1

\* {month: historical_data[month] for month in sorted_months[:24]}
RecentData(m) ==
    LET months == Take(SortedMonths(Keys(m)), KeepMonths)
    IN  [i \in 1..Len(months) |-> [k |-> months[i], v |-> Get(m, months[i], Num(0))]]

-----------------------------------------------------------------------------
(* docs/index.html as tokens, and its patch *)

Placeholder == [t |-> "<meta name=\"description\" content=\"UPI Analytics Dashboard\">", n |-> 0]

Patched(n) == [t |-> "<meta description Latest: n M transactions>", n |-> n]

HeadEnd == [t |-> "</head>", n |-> 0]

StampComment(now) == [t |-> "<!-- Last updated -->", n |-> now]

Markup(n) == [t |-> "markup", n |-> n]

\* f"{x:.0f}": to the nearest integer, halves to the even one
Round0(x) ==
    LET q == x \div 10
        r == x % 10
    IN  IF r > 5 \/ (r = 5 /\ q % 2 = 1) THEN q + 1 ELSE q

\* str.replace over tokens: every occurrence of old becomes the tokens new
RECURSIVE Replace(_, _, _)
Replace(text, old, new) ==
    IF text = <<>> THEN <<>>
    ELSE (IF Head(text) = old THEN new ELSE <<Head(text)>>) \o Replace(Tail(text), old, new)

K_month == <<"m", "o", "n", "t", "h">>
K_totalVolume == <<"t", "o", "t", "a", "l", "V", "o", "l", "u", "m", "e">>
K_lastUpdated == <<"l", "a", "s", "t", "U", "p", "d", "a", "t", "e", "d">>

\* update_dashboard_html: the file after the call
update_dashboard_html(file, latest_data, now) ==
    IF file = Absent THEN Absent
    ELSE LET updated == Replace(file, Placeholder,
                                <<Patched(Round0(Get(latest_data, K_totalVolume, Num(0)).n))>>)
         IN  Replace(updated, HeadEnd, <<StampComment(now), HeadEnd>>)

\* cleanup_old_files: the KeepFiles newest names stay
cleanup_old_files(files) ==
    { f \in files : Cardinality({ g \in files : g > f }) < KeepFiles }

-----------------------------------------------------------------------------
(* The files update_data.py may find *)

\* a snapshot of month a: its month label, a volume, a timestamp
SnapshotOf(a) ==
    <<[k |-> K_month, v |-> Str(Strftime(a))],
      [k |-> K_totalVolume, v |-> Num(1000 + 15 * a)],
      [k |-> K_lastUpdated, v |-> Num(a)]>>

\* a store of the n months from month first on, oldest first
Window(first, n) ==
    [i \in 1..n |-> [k |-> Strftime(first + i - 1), v |-> Obj(SnapshotOf(first + i - 1))]]

LongLabel == <<"J", "a", "n", "-", "2", "0", "2", "4">>

Stores ==
    { Window(2, n) : n \in {0, 1, KeepMonths - 1, KeepMonths} }
    \cup { Put(Window(2, 2), LongLabel, Obj(SnapshotOf(0))) }

\* the store as data only: the declaration without the export blocks
DataOnlyText(data) ==
    <<Tok("const historicalUPIData =")>> \o Dumps(Obj(data)) \o <<Tok(";")>>

StoreFiles ==
    {Absent} \cup { DataOnlyText(d) : d \in Stores } \cup { JsText(d, 0) : d \in Stores }

\* latest.json: a month before, inside and after the stored months, a label
\* strptime rejects, and a snapshot without totals
LatestFiles ==
    {Absent}
    \cup { <<Obj(SnapshotOf(a))>> : a \in {0, 10, KeepMonths + 2, KeepMonths + 4} }
    \cup { <<Obj(Put(SnapshotOf(1), K_month, Str(LongLabel)))>>,
           <<Obj(<<[k |-> K_lastUpdated, v |-> Num(3)]>>)>> }

HtmlFiles ==
    { Absent,
      <<Markup(1), Placeholder, HeadEnd, Markup(2)>>,
      <<Markup(1), Patched(5), StampComment(0), HeadEnd, Markup(2)>> }

-----------------------------------------------------------------------------
(* update_data.py *)

\* __main__: process_and_update_dashboard, then cleanup_old_files, exit(1)
\* when the former returned False.  Everything from open(latest.json) to
\* update_dashboard_html is inside one try; save_historical_data and
\* update_dashboard_html catch what they raise themselves.
UpdateMain ==
    /\ clock < MaxRuns
    /\ IF latestFile = Absent
       THEN /\ exitCode' = 1
            /\ UNCHANGED <<storeFile, htmlFile, historical, current_month, saved>>
       ELSE LET now == clock + 1
                latest_data == latestFile[1]
                loaded == load_historical_data(storeFile)
                month == Get(latest_data.m, K_month, Str(Strftime(KeepMonths + 6 + clock))).s
                merged == Put(loaded, month, latest_data)
            IN  /\ historical' = merged
                /\ current_month' = month
                /\ IF SortRaises(Keys(merged))
                   THEN /\ exitCode' = 1
                        /\ UNCHANGED <<storeFile, htmlFile, saved>>
                   ELSE /\ LET recent_data == RecentData(merged)
                           IN  /\ saved' = <<recent_data>>
                               /\ storeFile' = JsText(recent_data, now)
                        /\ htmlFile' = update_dashboard_html(htmlFile, latest_data.m, now)
                        /\ exitCode' = 0
    /\ stampFiles' = cleanup_old_files(stampFiles)
    /\ before' = Snapshot
    /\ clock' = clock + 1
    /\ UNCHANGED <<page, fetched, parsed, saveCalls, latestFile>>

\* between two runs the scraper replaces latest.json
LatestReplaced ==
    /\ exitCode # -1
    /\ latestFile' \in LatestFiles \ {Absent, latestFile}
    /\ UNCHANGED <<page, fetched, parsed, saveCalls, stampFiles, storeFile, htmlFile,
                   historical, current_month, saved, exitCode, clock, before>>

InitUpdate ==
    /\ page = [tables |-> <<>>, poison |-> "none"]
    /\ fetched = "none"
    /\ parsed = EmptyDict
    /\ saveCalls = 0
    /\ latestFile \in LatestFiles
    /\ stampFiles \in {{}, 1..(KeepFiles + 2)}
    /\ storeFile \in StoreFiles
    /\ saved = <<>>
    /\ htmlFile \in HtmlFiles
    /\ historical = <<>>
    /\ current_month = <<>>
    /\ exitCode = -1
    /\ clock = 0
    /\ before = Snapshot

NextUpdate == UpdateMain \/ LatestReplaced

SpecUpdate == InitUpdate /\ [][NextUpdate]_vars

-----------------------------------------------------------------------------
(* Properties of update_data.py *)

KeySet(m) == { m[i].k : i \in 1..Len(m) }

\* a label of the form %b-%y: a month abbreviation, a hyphen, two digits
IsMonthYear(x) ==
    /\ Len(x) = 6
    /\ <<Lower(x[1]), Lower(x[2]), Lower(x[3])>> \in { MonthNames[m] : m \in 1..12 }
    /\ x[4] = "-"
    /\ {x[5], x[6]} \subseteq { Digits[i] : i \in 1..10 }

\* the month a label of the model's stores stands for, counted as Strftime does
MonthOf(x) == CHOOSE a \in 0..(2 * KeepMonths + MaxRuns + 8) : Strftime(a) = x

\* C3 as stated: the last run succeeded on a store of 24 periods written by
\* save_historical_data and a snapshot of a 25th period; the store it wrote
\* holds the 24 most recent of the 25, the retained ones unchanged.
TwentyFifthDropsOldest ==
    (/\ exitCode = 0
     /\ before.saved # <<>>
     /\ Len(before.saved[1]) = KeepMonths
     /\ \A x \in KeySet(before.saved[1]) : IsMonthYear(x)
     /\ IsMonthYear(current_month)
     /\ current_month \notin KeySet(before.saved[1]))
    => LET old == before.saved[1]
           all == KeySet(old) \cup {current_month}
           oldest == CHOOSE x \in all : \A y \in all : MonthOf(x) <= MonthOf(y)
       IN  /\ Len(saved[1]) = KeepMonths
           /\ KeySet(saved[1]) = all \ {oldest}
           /\ \A x \in KeySet(old) \ {oldest} : Get(saved[1], x, Num(0)) = Get(old, x, Num(0))

\* C4 as stated: the file save_historical_data wrote loads back to the
\* mapping it was given.
StoreRoundTrips ==
    saved # <<>> => load_historical_data(storeFile) = saved[1]

\* C8 as stated: a successful run that found index.html absent or without the
\* placeholder left it as it was.
PatchSkippedWithoutPlaceholder ==
    (/\ exitCode = 0
     /\ \/ before.html = Absent
        \/ \A i \in 1..Len(before.html) : before.html[i] # Placeholder)
    => htmlFile = before.html

\* C10: when a key of historical_data after the insertion is no %b-%y label,
\* the run fails and leaves the store file and index.html as it found them.
BadLabelIsFatal ==
    (\E x \in KeySet(historical) : ~IsMonthYear(x)) =>
        /\ exitCode = 1
        /\ storeFile = before.store
        /\ htmlFile = before.html
        /\ saved = before.saved

\* C10 witness: a stored key strptime rejects, under a snapshot with a good month
BadStoredLabelSeen ==
    /\ exitCode = 1
    /\ LongLabel \in KeySet(historical)
    /\ IsMonthYear(current_month)
    /\ storeFile # Absent
    /\ storeFile = before.store

====
